---- MODULE Spec2Model ----
(***************************************************************************)
(* The request pipeline of imgproxy (processing_handler.go): admission     *)
(* through processingSem, the per-request deadline, parse, download with   *)
(* fallback, the ETag check, the skip-processing shortcut, format          *)
(* resolution, the streamed response and the deferred calls that end a     *)
(* request.  Every request is one goroutine running handleProcessing; the  *)
(* goroutines share processingSem.                                         *)
(***************************************************************************)
EXTENDS Integers, Sequences, FiniteSets, TLC

\* Largest number of option atoms in the URL of a parsed request.
MaxOptions == 2

\* Largest number of raster operations called on one loaded image.
MaxRasterOps == 2

\* Number of client connections the model follows.
MaxClients == 2
\* Largest conf.Concurrency the model configures.
MaxConcurrency == 1

Clients == 1 .. MaxClients

VARIABLES
    conf,                 \* the process-wide configuration record (read-only after init)
    fallbackImage,        \* *imageData, or nilImage
    vipsTypeSupportSave,  \* the image types the raster engine can save
    env,                  \* what the clients and the origin may send
    processingSem,        \* number of tokens in the processingSem channel
    req,                  \* per client: the state of its handleProcessing call
    eTagCalcPool,         \* the idle *eTagCalc objects: the bytes each hash still holds
    calls,                \* per goroutine: the state of its calcETag call
    etags,                \* the calcETag calls that returned: arguments and result
    parser,               \* the state of one parsePath call: the options left to apply
                          \* and the option record built so far
    saver,                \* the state of one vipsImage.Save call: the image, the
                          \* bytes the target writer took, the outcome
    raster                \* one vipsImage: its handle, and the last operation
                          \* called on it with the handle it found and its result

etagVars == <<eTagCalcPool, calls, etags>>

\* the state of the functions the handler calls, followed on their own
libVars == <<etagVars, parser, saver, raster>>

\* the state of the server and of its requests
handlerVars == <<conf, fallbackImage, vipsTypeSupportSave, env, processingSem, req>>

vars == <<conf, fallbackImage, vipsTypeSupportSave, env, processingSem, req, libVars>>

(***************************************************************************)
(* Values                                                                  *)
(***************************************************************************)
imageTypeUnknown == "unknown"
imageTypeJPEG == "jpeg"
imageTypePNG == "png"
imageTypeWEBP == "webp"
imageTypeBMP == "bmp"

nilImage == [Data |-> "nil", Type |-> imageTypeUnknown]

NoError == [StatusCode |-> 0, Message |-> "nil", Unexpected |-> FALSE, imgproxyError |-> FALSE]

newError(status, msg) ==
    [StatusCode |-> status, Message |-> msg, Unexpected |-> FALSE, imgproxyError |-> TRUE]

newUnexpectedError(msg) ==
    [StatusCode |-> 500, Message |-> msg, Unexpected |-> TRUE, imgproxyError |-> TRUE]

\* an error value that is not an *imgproxyError (a plain Go error)
plainError(msg) ==
    [StatusCode |-> 500, Message |-> msg, Unexpected |-> TRUE, imgproxyError |-> FALSE]

errCancelled == newError(499, "Cancelled")
errTimeout == newError(500, "Timeout")
errInvalidSignature == newError(403, "Invalid signature")
errSourceNotAllowed == newError(404, "Source URL is not allowed")
errInvalidOption == newError(422, "Invalid URL")

defaultProcessingOptions ==
    [Format |-> imageTypeUnknown, PreferWebP |-> FALSE, EnforceWebP |-> FALSE]

\* The request as far as the handler has read it; a part not read yet is "unread".
NoInput ==
    [sig |-> "unread", options |-> "unread", source |-> "unread", ext |-> "unread",
     Accept |-> "unread", AcceptEncoding |-> "unread", IfNoneMatch |-> <<"unread">>]

\* http.ResponseWriter: status 0 until the header is written.
NewResponseWriter ==
    [status |-> 0, ETag |-> <<>>, ContentType |-> "", ContentEncoding |-> "",
     CacheControl |-> <<>>, Expires |-> <<>>, body |-> <<>>]

NewRequest ==
    [pc |-> "select", ctx |-> "live", in |-> NoInput, po |-> defaultProcessingOptions,
     imgdata |-> nilImage, cacheControl |-> <<>>, expires |-> <<>>,
     rw |-> NewResponseWriter, w |-> "nil", defers |-> <<>>,
     dlerr |-> NoError, err |-> NoError, processed |-> 0, log |-> <<>>]

Idle == [NewRequest EXCEPT !.pc = "off"]

(***************************************************************************)
(* net/http's ResponseWriter                                               *)
(***************************************************************************)
\* rw.WriteHeader(code): the first call commits the status, later calls are ignored.
WriteHeader(rw, code) ==
    IF rw.status = 0 THEN [rw EXCEPT !.status = code] ELSE rw

\* rw.Write(bytes of `stream`): commits 200 when no header was written; a 304
\* response takes no body.
Write(rw, stream) ==
    LET h == WriteHeader(rw, 200)
    IN  IF h.status = 304 THEN h ELSE [h EXCEPT !.body = Append(@, stream)]

(***************************************************************************)
(* handleProcessing: admission                                             *)
(***************************************************************************)
Log(q, e) == [q EXCEPT !.log = Append(@, e)]

\* panic(err): the goroutine starts unwinding with err
Panic(q, e) == [q EXCEPT !.pc = "unwind", !.err = e]

\* return: the goroutine starts unwinding without an error
Return(q) == [q EXCEPT !.pc = "unwind"]

ctxDone(q) == q.ctx # "live"

\* checkTimeout(ctx): panics with errTimeout once ctx is done
checkTimeout(q) == IF ctxDone(q) THEN Panic(q, errTimeout) ELSE q

\* faulty variant: the channel takes one token more than its capacity
SemHasRoomOffByOne == processingSem <= conf.Concurrency

\* a send on the buffered channel processingSem can proceed
SemHasRoom == processingSem < conf.Concurrency

\* case processingSem <- struct{}{}: then defer the release and start the deadline
Acquire(r) ==
    /\ req[r].pc = "select"
    /\ SemHasRoom
    /\ processingSem' = processingSem + 1
    /\ req' = [req EXCEPT ![r] =
            Log([@ EXCEPT !.pc = "admitted", !.defers = <<"release", "timeoutCancel">>], "acquire")]
    /\ UNCHANGED <<libVars, conf, fallbackImage, vipsTypeSupportSave, env>>

\* faulty variant: the release is deferred before the select, so a cancelled request
\* takes a token out of the channel that it never put in
CancelledAfterDeferredRelease(r) ==
    /\ req[r].pc = "select"
    /\ ctxDone(req[r])
    /\ req' = [req EXCEPT ![r] = Panic([@ EXCEPT !.defers = <<"release">>], errCancelled)]
    /\ UNCHANGED <<libVars, conf, fallbackImage, vipsTypeSupportSave, env, processingSem>>

\* case <-ctx.Done(): panic(newError(499, ...)); nothing was deferred yet
CancelledBeforeProcessing(r) ==
    /\ req[r].pc = "select"
    /\ ctxDone(req[r])
    /\ req' = [req EXCEPT ![r] = Panic(@, errCancelled)]
    /\ UNCHANGED <<libVars, conf, fallbackImage, vipsTypeSupportSave, env, processingSem>>

\* the client goes away: the request's context is cancelled
ClientCancel(r) ==
    /\ req[r].pc \notin {"off", "done"}
    /\ req[r].ctx = "live"
    /\ req' = [req EXCEPT ![r].ctx = "cancelled"]
    /\ UNCHANGED <<libVars, conf, fallbackImage, vipsTypeSupportSave, env, processingSem>>

\* context.WithTimeout: the deadline passes while timeoutCancel has not run
DeadlineExpires(r) ==
    /\ req[r].ctx = "live"
    /\ \E i \in 1 .. Len(req[r].defers) : req[r].defers[i] = "timeoutCancel"
    /\ req' = [req EXCEPT ![r].ctx = "expired"]
    /\ UNCHANGED <<libVars, conf, fallbackImage, vipsTypeSupportSave, env, processingSem>>

(***************************************************************************)
(* The deferred calls and the HTTP boundary                                *)
(***************************************************************************)
\* the flush function prerespondWithImage returned: gz.Close() writes what the
\* encoder still holds (at least the gzip trailer) to rw
gzClose(q) ==
    Log(IF q.w = "gz" THEN [q EXCEPT !.rw = Write(@, "gzip"), !.w = "closed"] ELSE q,
        "gzClose")

\* lines 98-101 with an encoder (gz.Close, responseGzipPool.Put), line 104 without
done(q) ==
    Log(IF q.w \in {"gz", "closed"} THEN Log(gzClose(q), "gzPut") ELSE q, "finalize")

\* one deferred call
RunDeferred(q, d) ==
    CASE d = "done" -> done(q)
      [] d = "release" -> Log(q, "release")
      [] OTHER -> q

RECURSIVE RunDefers(_)
\* the deferred calls run last in, first out
RunDefers(q) ==
    IF q.defers = <<>> THEN q
    ELSE LET n == Len(q.defers)
         IN  RunDefers(RunDeferred([q EXCEPT !.defers = SubSeq(@, 1, n - 1)], q.defers[n]))

\* faulty variant: the token is given back at the end of the function, not in
\* a deferred call, so a panic keeps it
ReleasesAtReturnOnly(q) ==
    IF q.err # NoError THEN 0
    ELSE Cardinality({i \in 1 .. Len(q.defers) : q.defers[i] = "release"})

Releases(q) == Cardinality({i \in 1 .. Len(q.defers) : q.defers[i] = "release"})

\* the function returns or panics: its deferred calls run, then either the
\* request is over or the panic reaches the HTTP boundary
Unwind(r) ==
    /\ req[r].pc = "unwind"
    /\ processingSem' = processingSem - Releases(req[r])
    /\ req' = [req EXCEPT ![r] =
            [RunDefers(@) EXCEPT !.pc = IF req[r].err = NoError THEN "done" ELSE "recover"]]
    /\ UNCHANGED <<libVars, conf, fallbackImage, vipsTypeSupportSave, env>>

\* the HTTP boundary recovers the panic and answers with the error's status and message
PanicHandler(r) ==
    /\ req[r].pc = "recover"
    /\ req' = [req EXCEPT ![r] =
            Log([@ EXCEPT !.pc = "done",
                          !.rw = Write(WriteHeader(@, req[r].err.StatusCode), "error")],
                "errbody")]
    /\ UNCHANGED <<libVars, conf, fallbackImage, vipsTypeSupportSave, env, processingSem>>

(***************************************************************************)
(* parsePath, downloadImage, calcETag, processImage: what the handler      *)
(* consumes from them                                                      *)
(***************************************************************************)
\* parsePath(ctx, r): the option record of the request, or the error that ends it
parsePath(in) ==
    IF ~conf.AllowInsecure /\ in.sig # "signed"
        THEN [err |-> errInvalidSignature, po |-> defaultProcessingOptions]
    ELSE IF in.source = "notallowed"
        THEN [err |-> errSourceNotAllowed, po |-> defaultProcessingOptions]
    ELSE IF in.options = "invalid"
        THEN [err |-> errInvalidOption, po |-> defaultProcessingOptions]
    ELSE [err |-> NoError,
          po |-> [Format |-> in.ext,
                  PreferWebP |-> in.Accept = "image/webp"
                                 /\ (conf.EnableWebpDetection \/ conf.EnforceWebp),
                  EnforceWebP |-> in.Accept = "image/webp" /\ conf.EnforceWebp]]

\* what downloadImage(ctx, imgURL) may return
\* with the image come the Cache-Control and Expires headers of the origin; an
\* empty sequence is Go's empty string, a header the origin did not send
DownloadResults ==
    {[err |-> NoError, imgdata |-> [Data |-> "source", Type |-> t],
      cacheControl |-> h.cacheControl, expires |-> h.expires] :
        t \in env.srcTypes, h \in env.cacheHeaders}
    \cup {[err |-> e, imgdata |-> nilImage, cacheControl |-> <<>>, expires |-> <<>>] :
            e \in env.downloadErrors}

\* sha256 as an injective function
Sum(x) == <<"sha256", x>>

version == "v2"

\* hex(sha256(sha256(imgdata.Data) . version . json(conf) . json(po)))
calcETag(imgdata, po) == Sum(<<Sum(imgdata.Data), version, conf, po>>)

imageTypeSaveSupport(t) == t \in vipsTypeSupportSave

imageTypeGoodForWeb(t) == t # imageTypeBMP

(***************************************************************************)
(* handleProcessing: parse, download, ETag                                 *)
(***************************************************************************)
\* faulty variant: the error parsePath returned is dropped, the handler goes on
AfterParseIgnoringError(q, in) ==
    [Log([q EXCEPT !.in = in], "parse") EXCEPT !.pc = "parsed", !.po = parsePath(in).po]

\* faulty variant: on an error the handler returns instead of panicking
AfterParseReturningOnError(q, in) ==
    LET res == parsePath(in)
        q1 == Log([q EXCEPT !.in = in], "parse")
    IN  IF res.err # NoError THEN Return(q1)
        ELSE [q1 EXCEPT !.pc = "parsed", !.po = res.po]

\* imgURL, po, err := parsePath(ctx, r); if err != nil { panic(err) }
AfterParse(q, in) ==
    LET res == parsePath(in)
        q1 == Log([q EXCEPT !.in = in], "parse")
    IN  IF res.err # NoError THEN Panic(q1, res.err)
        ELSE [q1 EXCEPT !.pc = "parsed", !.po = res.po]

ParsePath(r) ==
    /\ req[r].pc = "admitted"
    /\ \E sig \in IF conf.AllowInsecure THEN {"unread"} ELSE env.sigs,
          options \in env.options, source \in env.sources,
          ext \in env.formats,
          accept \in IF conf.EnableWebpDetection \/ conf.EnforceWebp
                     THEN {"image/webp", "*/*"} ELSE {"unread"} :
          req' = [req EXCEPT ![r] =
                    AfterParse(@, [@.in EXCEPT !.sig = sig, !.options = options,
                                               !.source = source, !.ext = ext,
                                               !.Accept = accept])]
    /\ UNCHANGED <<libVars, conf, fallbackImage, vipsTypeSupportSave, env, processingSem>>

\* reportError(err, r) unless err is an expected *imgproxyError
ReportUnlessExpected(q, err) ==
    IF ~err.imgproxyError \/ err.Unexpected THEN Log(q, "reportError") ELSE q

\* faulty variant: every download error is reported, the expected ones too
AfterDownloadReportingAll(q, dl) ==
    LET q1 == Log([q EXCEPT !.defers = Append(@, "downloadcancel"), !.dlerr = dl.err,
                            !.cacheControl = dl.cacheControl, !.expires = dl.expires],
                  "download")
    IN  IF dl.err # NoError
        THEN IF fallbackImage = nilImage
             THEN Panic(q1, dl.err)
             ELSE checkTimeout(Log([Log(q1, "reportError")
                                       EXCEPT !.pc = "fetched", !.imgdata = fallbackImage],
                                   "fallback"))
        ELSE checkTimeout([q1 EXCEPT !.pc = "fetched", !.imgdata = dl.imgdata])

\* faulty variant: without a fallback image a failed download is tried again
AfterDownloadRetrying(q, dl) ==
    LET q1 == Log([q EXCEPT !.dlerr = dl.err,
                            !.cacheControl = dl.cacheControl, !.expires = dl.expires],
                  "download")
    IN  IF dl.err # NoError
        THEN IF fallbackImage = nilImage
             THEN q1
             ELSE checkTimeout(Log([ReportUnlessExpected(q1, dl.err)
                                       EXCEPT !.pc = "fetched", !.imgdata = fallbackImage,
                                              !.defers = Append(@, "downloadcancel")],
                                   "fallback"))
        ELSE checkTimeout([q1 EXCEPT !.pc = "fetched", !.imgdata = dl.imgdata,
                                     !.defers = Append(@, "downloadcancel")])

\* lines 142-164: defer downloadcancel(); on an error panic without a fallback
\* image, else go on with the fallback image; then checkTimeout
AfterDownload(q, dl) ==
    LET q1 == Log([q EXCEPT !.defers = Append(@, "downloadcancel"), !.dlerr = dl.err,
                            !.cacheControl = dl.cacheControl, !.expires = dl.expires],
                  "download")
    IN  IF dl.err # NoError
        THEN IF fallbackImage = nilImage
             THEN Panic(q1, dl.err)
             ELSE checkTimeout(Log([ReportUnlessExpected(q1, dl.err)
                                       EXCEPT !.pc = "fetched", !.imgdata = fallbackImage],
                                   "fallback"))
        ELSE checkTimeout([q1 EXCEPT !.pc = "fetched", !.imgdata = dl.imgdata])

DownloadImage(r) ==
    /\ req[r].pc = "parsed"
    /\ \E dl \in DownloadResults : req' = [req EXCEPT ![r] = AfterDownload(@, dl)]
    /\ UNCHANGED <<libVars, conf, fallbackImage, vipsTypeSupportSave, env, processingSem>>

\* rw.WriteHeader(304)
respondWithNotModified(q) == Log([q EXCEPT !.rw = WriteHeader(@, 304)], "notModified")

\* faulty variant: the return after respondWithNotModified is missing
CheckETagWithoutReturn(q, inm) ==
    IF conf.ETagEnabled
    THEN LET eTag == calcETag(q.imgdata, q.po)
             q1 == Log([q EXCEPT !.rw.ETag = eTag, !.in.IfNoneMatch = inm], "etag")
         IN  IF eTag = inm
             THEN checkTimeout([respondWithNotModified(q1) EXCEPT !.pc = "checked"])
             ELSE checkTimeout([q1 EXCEPT !.pc = "checked"])
    ELSE checkTimeout([q EXCEPT !.pc = "checked"])

\* lines 166-176
CheckETag(q, inm) ==
    IF conf.ETagEnabled
    THEN LET eTag == calcETag(q.imgdata, q.po)
             q1 == Log([q EXCEPT !.rw.ETag = eTag, !.in.IfNoneMatch = inm], "etag")
         IN  IF eTag = inm
             THEN Return(respondWithNotModified(q1))
             ELSE checkTimeout([q1 EXCEPT !.pc = "checked"])
    ELSE checkTimeout([q EXCEPT !.pc = "checked"])

\* the If-None-Match values a client may send with this request
IfNoneMatchValues(q) ==
    IF conf.ETagEnabled
    THEN {IF d = "none" THEN <<>> ELSE calcETag([Data |-> d, Type |-> imageTypePNG], q.po) :
            d \in env.cached}
    ELSE {<<"unread">>}

Conditional(r) ==
    /\ req[r].pc = "fetched"
    /\ \E inm \in IfNoneMatchValues(req[r]) : req' = [req EXCEPT ![r] = CheckETag(@, inm)]
    /\ UNCHANGED <<libVars, conf, fallbackImage, vipsTypeSupportSave, env, processingSem>>

(***************************************************************************)
(* handleProcessing: skip-processing, format resolution, response          *)
(***************************************************************************)
\* faulty variant: the requested format is not compared with the source type
SkipProcessingAnyFormat(q) ==
    /\ Cardinality(conf.SkipProcessingFormats) > 0
    /\ \E f \in conf.SkipProcessingFormats : f = q.imgdata.Type

\* lines 178-181: the source type is one of conf.SkipProcessingFormats and the
\* requested format is that type or unknown
SkipProcessing(q) ==
    /\ Cardinality(conf.SkipProcessingFormats) > 0
    /\ q.imgdata.Type = q.po.Format \/ q.po.Format = imageTypeUnknown
    /\ \E f \in conf.SkipProcessingFormats : f = q.imgdata.Type

\* faulty variant: the source type is kept without asking whether it can be saved
ResolveFormatIgnoringSaveSupport(po, imgdata) ==
    IF po.Format = imageTypeUnknown
    THEN IF po.PreferWebP /\ imageTypeSaveSupport(imageTypeWEBP)
            THEN imageTypeWEBP
         ELSE IF imageTypeGoodForWeb(imgdata.Type)
            THEN imgdata.Type
         ELSE imageTypeJPEG
    ELSE IF po.EnforceWebP /\ imageTypeSaveSupport(imageTypeWEBP)
        THEN imageTypeWEBP
    ELSE po.Format

\* faulty variant: the else-if branch that enforces WebP is missing
ResolveFormatWithoutEnforce(po, imgdata) ==
    IF po.Format = imageTypeUnknown
    THEN IF po.PreferWebP /\ imageTypeSaveSupport(imageTypeWEBP)
            THEN imageTypeWEBP
         ELSE IF imageTypeSaveSupport(imgdata.Type) /\ imageTypeGoodForWeb(imgdata.Type)
            THEN imgdata.Type
         ELSE imageTypeJPEG
    ELSE po.Format

\* lines 192-203
ResolveFormat(po, imgdata) ==
    IF po.Format = imageTypeUnknown
    THEN IF po.PreferWebP /\ imageTypeSaveSupport(imageTypeWEBP)
            THEN imageTypeWEBP
         ELSE IF imageTypeSaveSupport(imgdata.Type) /\ imageTypeGoodForWeb(imgdata.Type)
            THEN imgdata.Type
         ELSE imageTypeJPEG
    ELSE IF po.EnforceWebP /\ imageTypeSaveSupport(imageTypeWEBP)
        THEN imageTypeWEBP
    ELSE po.Format

\* lines 92-105: the response goes through a pooled gzip encoder
UseGzip(acceptEncoding) == conf.GZipCompression > 0 /\ acceptEncoding = "gzip"

\* fmt.Sprintf("max-age=%d, public", conf.TTL)
MaxAge(ttl) == <<"max-age=", ttl, ", public">>

\* time.Now().Add(ttl seconds) in http.TimeFormat
ExpiresIn(ttl) == <<"now+", ttl>>

\* faulty variant: the origin's values are not cleared when CacheControlPassthrough is off
CacheHeadersNeverCleared(cacheControl, expires) ==
    IF Len(cacheControl) = 0 /\ Len(expires) = 0
    THEN [cacheControl |-> MaxAge(conf.TTL), expires |-> ExpiresIn(conf.TTL)]
    ELSE [cacheControl |-> cacheControl, expires |-> expires]

\* lines 69-77: the values of Cache-Control and Expires; an empty one is not set
CacheHeaders(cacheControl, expires) ==
    LET cc == IF ~conf.CacheControlPassthrough THEN <<>> ELSE cacheControl
        ex == IF ~conf.CacheControlPassthrough THEN <<>> ELSE expires
    IN  IF Len(cc) = 0 /\ Len(ex) = 0
        THEN [cacheControl |-> MaxAge(conf.TTL), expires |-> ExpiresIn(conf.TTL)]
        ELSE [cacheControl |-> cc, expires |-> ex]

\* prerespondWithImage: the headers of the 200 response, and the writer the body
\* goes to; the caller defers the flush function it returns
prerespondWithImage(q, acceptEncoding) ==
    LET ch == CacheHeaders(q.cacheControl, q.expires)
        q1 == [q EXCEPT !.rw.ContentType = q.po.Format, !.in.AcceptEncoding = acceptEncoding,
                        !.rw.CacheControl = ch.cacheControl, !.rw.Expires = ch.expires]
        q2 == IF UseGzip(acceptEncoding)
              THEN Log([q1 EXCEPT !.rw.ContentEncoding = "gzip", !.w = "gz"], "gzGet")
              ELSE [q1 EXCEPT !.w = "rw"]
    IN  Log([q2 EXCEPT !.defers = Append(@, "done")], "headers")

\* w.Write(data): straight to rw, or through the gzip encoder into rw
WriteBody(q, stream) == Log([q EXCEPT !.rw = Write(@, stream)], "write")

\* lines 178-206
Respond(q, acceptEncoding) ==
    IF SkipProcessing(q)
    THEN Return(WriteBody(prerespondWithImage([q EXCEPT !.po.Format = q.imgdata.Type],
                                              acceptEncoding),
                          "source"))
    ELSE [prerespondWithImage([q EXCEPT !.po.Format = ResolveFormat(q.po, q.imgdata)],
                              acceptEncoding)
            EXCEPT !.pc = "preresponded"]

PrerespondOrSkip(r) ==
    /\ req[r].pc = "checked"
    /\ \E ae \in IF conf.GZipCompression > 0 THEN env.acceptEncodings ELSE {"unread"} :
          req' = [req EXCEPT ![r] = Respond(@, ae)]
    /\ UNCHANGED <<libVars, conf, fallbackImage, vipsTypeSupportSave, env, processingSem>>

\* vipsError(): what a failed raster operation returns
vipsError == newUnexpectedError("vips")

\* a Go value behind an interface: its dynamic type, and the bytes it holds
\* when it is a buffer. *bytes.Buffer and the response writer have a Write
\* method; a bytes.Buffer value has none (Write has a pointer receiver).
GoValue(type, bytes) == [type |-> type, bytes |-> bytes]

\* v.(io.Writer) succeeds
IsWriter(v) == v.type \in {"io.Writer", "*bytes.Buffer"}

\* v.(interface{ Flush() }) succeeds
IsFlusher(v) == v.type \in {"*gzip.Writer", "http.ResponseWriter"}

\* v.(io.Closer) succeeds
IsCloser(v) == v.type \in {"*gzip.Writer"}

\* the writer w of the handler as a Go value
Writer(q) == GoValue(IF q.w = "rw" THEN "http.ResponseWriter" ELSE "*gzip.Writer", <<>>)

\* faulty variant: the handle is restored to the writer that was saved, so the
\* encoder is flushed and closed when the image has been saved
imgproxy_finishRestored(q) ==
    LET u == Writer(q)
    IN  IF IsCloser(u) THEN gzClose(q) ELSE q

\* imgproxy_finish, part_001 lines 643-652: u is the unsafe.Pointer itself in
\* an interface; it has no methods, so neither assertion succeeds
imgproxy_finish(q) ==
    LET u == GoValue("unsafe.Pointer", <<>>)
    IN  IF IsCloser(u) THEN gzClose(q) ELSE q


\* lines 208-218: processImage writes the encoded image to w and the target's
\* finish callback runs; on an error the handler panics. The driver checks the
\* deadline before it starts.
AfterProcess(q, outcome) ==
    LET q1 == Log([q EXCEPT !.processed = @ + 1], "process")
    IN  IF ctxDone(q) THEN Panic(q1, errTimeout)
        ELSE LET q2 == [q1 EXCEPT !.defers = Append(@, "processcancel")]
             IN  CASE outcome = "ok" ->
                        [imgproxy_finish(WriteBody(q2, "image")) EXCEPT !.pc = "processed"]
                   [] outcome = "failed" -> Panic(q2, vipsError)
                   [] OTHER -> Panic(WriteBody(q2, "image"), vipsError)

ProcessImage(r) ==
    /\ req[r].pc = "preresponded"
    /\ \E outcome \in env.processOutcomes : req' = [req EXCEPT ![r] = AfterProcess(@, outcome)]
    /\ UNCHANGED <<libVars, conf, fallbackImage, vipsTypeSupportSave, env, processingSem>>

\* lines 220-222
FinalCheck(r) ==
    /\ req[r].pc = "processed"
    /\ req' = [req EXCEPT ![r] = LET q == checkTimeout(@) IN IF q.pc = "unwind" THEN q ELSE Return(q)]
    /\ UNCHANGED <<libVars, conf, fallbackImage, vipsTypeSupportSave, env, processingSem>>

(***************************************************************************)
(* calcETag, statement by statement, on the pooled hash state              *)
(***************************************************************************)
\* sha256.New(): a hash that holds no bytes
NewETagCalc == <<>>

\* c.hash.Reset()
Reset(h) == <<>>

\* c.hash.Write(p): the bytes of p follow the bytes the hash holds
HashWrite(h, p) == h \o p

\* what c.enc.Encode(v) writes to the hash: the JSON text of v, which names
\* every exported field with its value, and a newline
Encode(v) == <<"{", v, "}", "\n">>

\* hex.EncodeToString
EncodeToString(digest) == <<"hex", digest>>

\* the images and the option records calcETag is called with
ETagSources == {[Data |-> d, Type |-> imageTypePNG] : d \in {<<"a">>, <<"a", "b">>}}

ETagOptions == {[defaultProcessingOptions @@ [Quality |-> 0] EXCEPT !.Quality = q] : q \in {80, 90}}

\* the first image is asked for in both qualities, the second in one
ETagArgs ==
    {a \in ETagSources \X ETagOptions : a[1].Data = <<"a">> \/ a[2].Quality = 80}

NoCall ==
    [pc |-> "idle", imgdata |-> nilImage, po |-> defaultProcessingOptions,
     c |-> NewETagCalc, reused |-> FALSE, footprint |-> <<>>, eTag |-> <<>>]

\* line 252: eTagCalcPool.Get() hands out an idle object, or a new one
ETagGet(g) ==
    /\ calls[g].pc = "idle"
    /\ \E a \in ETagArgs, c \in eTagCalcPool \cup {NewETagCalc} :
            /\ calls' = [calls EXCEPT ![g] =
                    [NoCall EXCEPT !.pc = "footprint", !.imgdata = a[1], !.po = a[2],
                                   !.c = c, !.reused = (c \in eTagCalcPool)]]
            /\ eTagCalcPool' = eTagCalcPool \ {c}
    /\ UNCHANGED <<etags, parser, saver, raster, handlerVars>>

\* faulty variant: the hash is not reset before the source bytes are written
WriteSourceWithoutReset(h, data) == HashWrite(h, data)

\* lines 255-256
WriteSource(h, data) == HashWrite(Reset(h), data)

\* lines 255-257: footprint := sha256(imgdata.Data)
ETagFootprint(g) ==
    /\ calls[g].pc = "footprint"
    /\ LET h == WriteSource(calls[g].c, calls[g].imgdata.Data)
       IN  calls' = [calls EXCEPT ![g].pc = "sum", ![g].c = h, ![g].footprint = Sum(h)]
    /\ UNCHANGED <<eTagCalcPool, etags, parser, saver, raster, handlerVars>>

\* lines 259-263
WriteFootprint(h, footprint, po) ==
    HashWrite(HashWrite(HashWrite(HashWrite(Reset(h), <<footprint>>), <<version>>),
                        Encode(conf)),
              Encode(po))

\* lines 259-265: the value calcETag returns
ETagSum(g) ==
    /\ calls[g].pc = "sum"
    /\ LET h == WriteFootprint(calls[g].c, calls[g].footprint, calls[g].po)
       IN  calls' = [calls EXCEPT ![g].pc = "return", ![g].c = h,
                                  ![g].eTag = EncodeToString(Sum(h))]
    /\ UNCHANGED <<eTagCalcPool, etags, parser, saver, raster, handlerVars>>

\* line 253, deferred: eTagCalcPool.Put(c), the hash holding what was written last
ETagReturn(g) ==
    /\ calls[g].pc = "return"
    /\ eTagCalcPool' = eTagCalcPool \cup {calls[g].c}
    /\ etags' = etags \cup {[imgdata |-> calls[g].imgdata, po |-> calls[g].po,
                             eTag |-> calls[g].eTag]}
    /\ calls' = [calls EXCEPT ![g] = NoCall]
    /\ UNCHANGED <<parser, saver, raster, handlerVars>>

(***************************************************************************)
(* parsePath: the option atoms, the presets, the client hints              *)
(***************************************************************************)
\* urlOption{Name, Args}
urlOption(name, args) == [Name |-> name, Args |-> args]

\* strconv.Atoi on the numerals the requests use; -1 stands for its error
Atoi(str) ==
    CASE str = "0" -> 0
      [] str = "2" -> 2
      [] str = "3" -> 3
      [] str = "50" -> 50
      [] str = "70" -> 70
      [] str = "100" -> 100
      [] str = "150" -> 150
      [] str = "320" -> 320
      [] OTHER -> -1

NoHeaders == [Width |-> "", ViewportWidth |-> "", DPR |-> ""]

\* the option record parsePath starts from: Width 0, Dpr 1.0, no preset used
parseDefaults == [Width |-> 0, Dpr |-> 1, Quality |-> 0, UsedPresets |-> <<>>]

NoParse ==
    [pc |-> "off", url |-> <<>>, headers |-> NoHeaders, todo |-> <<>>,
     po |-> parseDefaults, explicit |-> {}, log |-> <<>>]

\* a reference to the preset `name` that applyPresetOption has yet to look at
presetRef(name) == [preset |-> name]

\* steps 5 and 6 laid out: the `default` preset if there is one, then the atoms
\* of the URL
StartParse(url, headers) ==
    [NoParse EXCEPT !.pc = "options", !.url = url, !.headers = headers,
                    !.todo = (IF "default" \in DOMAIN conf.Presets
                              THEN <<presetRef("default")>> ELSE <<>>) \o url]

Fail(p, e) == [p EXCEPT !.pc = "failed", !.log = Append(@, <<"fail", e>>)]

\* a typed setter: the argument count and range are validated, then the field
\* is assigned
Setter(p, o) ==
    LET n == IF Len(o.Args) = 1 THEN Atoi(o.Args[1]) ELSE -1
        q == [p EXCEPT !.todo = Tail(@), !.explicit = @ \cup {o.Name},
                       !.log = Append(@, <<"set", o.Name>>)]
    IN  CASE o.Name = "width" /\ n >= 0 -> [q EXCEPT !.po.Width = n]
          [] o.Name = "dpr" /\ n > 0 -> [q EXCEPT !.po.Dpr = n]
          [] o.Name = "quality" /\ n > 0 /\ n <= 100 -> [q EXCEPT !.po.Quality = n]
          [] OTHER -> Fail(p, "InvalidOption")

\* step 6: the next atom is a named option other than preset
ApplyOption ==
    /\ parser.pc = "options"
    /\ parser.todo # <<>>
    /\ "Name" \in DOMAIN Head(parser.todo)
    /\ Head(parser.todo).Name # "preset"
    /\ parser' = Setter(parser, Head(parser.todo))
    /\ UNCHANGED <<etagVars, saver, raster, handlerVars>>

\* step 6: preset:name1:name2:... refers to each of the names, in order
ApplyPresetOption ==
    /\ parser.pc = "options"
    /\ parser.todo # <<>>
    /\ "Name" \in DOMAIN Head(parser.todo)
    /\ Head(parser.todo).Name = "preset"
    /\ parser' = [parser EXCEPT !.todo =
            [i \in 1 .. Len(Head(parser.todo).Args) |-> presetRef(Head(parser.todo).Args[i])]
            \o Tail(@)]
    /\ UNCHANGED <<etagVars, saver, raster, handlerVars>>

isPresetUsed(po, name) == \E i \in 1 .. Len(po.UsedPresets) : po.UsedPresets[i] = name

\* faulty variant: a preset is expanded whether or not it was used before
UsePresetAgain(p, name) ==
    IF name \notin DOMAIN conf.Presets THEN Fail(p, "InvalidOption")
    ELSE [p EXCEPT !.po.UsedPresets = Append(@, name),
                   !.todo = conf.Presets[name] \o Tail(@),
                   !.log = Append(@, <<"expand", name>>)]

\* one referenced preset: unknown names fail the parse, a name in UsedPresets
\* is skipped, any other is put into UsedPresets and its atoms are applied in
\* place
UsePreset(p, name) ==
    IF name \notin DOMAIN conf.Presets THEN Fail(p, "InvalidOption")
    ELSE IF isPresetUsed(p.po, name)
        THEN [p EXCEPT !.todo = Tail(@), !.log = Append(@, <<"skip", name>>)]
    ELSE [p EXCEPT !.po.UsedPresets = Append(@, name),
                   !.todo = conf.Presets[name] \o Tail(@),
                   !.log = Append(@, <<"expand", name>>)]

ExpandPreset ==
    /\ parser.pc = "options"
    /\ parser.todo # <<>>
    /\ "preset" \in DOMAIN Head(parser.todo)
    /\ parser' = UsePreset(parser, Head(parser.todo).preset)
    /\ UNCHANGED <<etagVars, saver, raster, handlerVars>>

\* the width a request's headers give, -1 when they give none
HeaderWidth(headers) ==
    IF headers.Width # "" THEN Atoi(headers.Width)
    ELSE IF headers.ViewportWidth # "" THEN Atoi(headers.ViewportWidth)
    ELSE -1

HeaderDpr(headers) == IF headers.DPR # "" THEN Atoi(headers.DPR) ELSE -1

\* faulty variant: the headers are applied over what the URL has set
ClientHintsOverURL(p) ==
    IF ~conf.EnableClientHints THEN p
    ELSE LET w == HeaderWidth(p.headers)
             d == HeaderDpr(p.headers)
             p1 == IF w >= 0 THEN [p EXCEPT !.po.Width = w] ELSE p
         IN  IF d > 0 THEN [p1 EXCEPT !.po.Dpr = d] ELSE p1

\* step 7: with EnableClientHints, a header sets Width or Dpr unless the URL
\* has set it
ClientHints(p) ==
    IF ~conf.EnableClientHints THEN p
    ELSE LET w == HeaderWidth(p.headers)
             d == HeaderDpr(p.headers)
             p1 == IF w >= 0 /\ "width" \notin p.explicit THEN [p EXCEPT !.po.Width = w] ELSE p
         IN  IF d > 0 /\ "dpr" \notin p.explicit THEN [p1 EXCEPT !.po.Dpr = d] ELSE p1

\* no atom is left: the client hints are applied and parsePath returns
FinishParse ==
    /\ parser.pc = "options"
    /\ parser.todo = <<>>
    /\ parser' = [ClientHints(parser) EXCEPT !.pc = "done"]
    /\ UNCHANGED <<etagVars, saver, raster, handlerVars>>

(***************************************************************************)
(* vipsImage.Save and SaveAsIco: the bytes the target writer takes         *)
(***************************************************************************)
imageTypeICO == "ico"

\* pointer.Save(v): the table keeps the interface value it was handed; for a
\* struct passed by value that is a copy of the struct
pointerSave(v) == v

\* imgproxy_write: v := pointer.Restore(user).(io.Writer) panics when the saved
\* value is no io.Writer; else the bytes go to the writer
imgproxy_write(user, d) ==
    IF ~IsWriter(user) THEN [panic |-> TRUE, n |-> 0, written |-> <<>>]
    ELSE [panic |-> FALSE, n |-> Len(d), written |-> d]

\* a vips_*save_go call on a writer target: libvips encodes the image and hands
\* the bytes to the target's write callback; a non-zero result is an error
vips_save(img, encoded, user) ==
    IF ~img.encodable THEN [panic |-> FALSE, err |-> 1, written |-> <<>>]
    ELSE LET r == imgproxy_write(user, encoded)
         IN  [panic |-> r.panic, err |-> IF r.n < 0 THEN 1 ELSE 0, written |-> r.written]

\* byte(x): the low eight bits
byte(x) == x % 256

\* binary.Write(w, binary.LittleEndian, uint32(x))
LittleEndian32(x) ==
    <<x % 256, (x \div 256) % 256, (x \div 65536) % 256, (x \div 16777216) % 256>>

Returned(w, err) == [pc |-> "returned", w |-> w, err |-> err]

Panicked(w) == [pc |-> "panicked", w |-> w, err |-> "nil"]

\* SaveAsIco, lines 225-289; w holds the bytes the target has taken so far
SaveAsIco(img, w) ==
    IF img.Width > 256 \/ img.Height > 256
    THEN Returned(w, "Image dimensions is too big. Max dimension size for ICO is 256")
    ELSE LET imgData == GoValue("bytes.Buffer", <<>>)
             wp == pointerSave(imgData)
             r == vips_save(img, img.png, wp)
         IN  IF r.panic THEN Panicked(w)
             ELSE IF r.err # 0 THEN Returned(w, "vipsError")
             ELSE Returned(w \o <<0, 0, 1, 0, 1, 0>>
                             \o <<byte(img.Width % 256), byte(img.Height % 256)>>
                             \o <<0>> \o <<0>> \o <<1, 0>>
                             \o (IF img.HasAlpha THEN <<32, 0>> ELSE <<24, 0>>)
                             \o LittleEndian32(Len(imgData.bytes))
                             \o <<22, 0, 0, 0>>
                             \o imgData.bytes,
                          "nil")

\* Save, lines 186-223: ICO goes to SaveAsIco, every other type is encoded by
\* libvips into a target that writes to w
Save(img, w, imgtype) ==
    IF imgtype = imageTypeICO THEN SaveAsIco(img, w)
    ELSE LET wp == pointerSave(GoValue("io.Writer", w))
             r == vips_save(img, <<imgtype>> \o img.png, wp)
         IN  IF r.panic THEN Panicked(w)
             ELSE IF r.err # 0 THEN Returned(w, "vipsError")
             ELSE Returned(w \o r.written, "nil")

NoSave ==
    [pc |-> "off", img |-> [Width |-> 0, Height |-> 0, HasAlpha |-> FALSE,
                            encodable |-> FALSE, png |-> <<>>],
     imgtype |-> imageTypeUnknown, w |-> <<>>, err |-> "nil"]

\* img.Save(w, imgtype, ...) runs to its end
SaveImage ==
    /\ saver.pc = "call"
    /\ saver' = Save(saver.img, saver.w, saver.imgtype) @@ saver
    /\ UNCHANGED <<etagVars, parser, raster, handlerVars>>

(***************************************************************************)
(* vipsImage: the raster operations and the image handle they swap         *)
(***************************************************************************)
\* img.VipsImage == nil: the handle of a vipsImage nothing was loaded into
nilVipsImage ==
    [px |-> <<>>, Type |-> "none", HasAlpha |-> FALSE, BandFmt |-> "none",
     Coding |-> "none", icc |-> "none"]

\* what the loaders decode the source bytes to: the interpretation, the alpha
\* band, the band format, the coding and the embedded profile of the image
LoadedImages ==
    {[px |-> <<"load">>, Type |-> "sRGB", HasAlpha |-> TRUE, BandFmt |-> "uchar",
      Coding |-> "none", icc |-> "srgb"],
     [px |-> <<"load">>, Type |-> "CMYK", HasAlpha |-> FALSE, BandFmt |-> "uchar",
      Coding |-> "none", icc |-> "none"],
     [px |-> <<"load">>, Type |-> "scRGB", HasAlpha |-> FALSE, BandFmt |-> "float",
      Coding |-> "rad", icc |-> "other"]}

\* the image an engine call that succeeded leaves in its out parameter
vips(call, in) ==
    LET out == [in EXCEPT !.px = Append(@, call)]
    IN  CASE call = "vips_cast_go" -> [out EXCEPT !.BandFmt = "uchar"]
          [] call = "vips_rad2float_go" -> [out EXCEPT !.Coding = "none", !.BandFmt = "float"]
          [] call = "vips_colourspace_go(sRGB)" -> [out EXCEPT !.Type = "sRGB"]
          [] call = "vips_colourspace_go(scRGB)" -> [out EXCEPT !.Type = "scRGB"]
          [] call \in {"vips_addalpha_go", "vips_ensure_alpha"} -> [out EXCEPT !.HasAlpha = TRUE]
          [] call = "vips_flatten_go" -> [out EXCEPT !.HasAlpha = FALSE]
          [] call = "vips_icc_import_go" -> [out EXCEPT !.icc = "none"]
          [] OTHER -> out

\* a method call on img: the handle, the error it returns if it has returned
\* one, and the number of engine calls it has made
Enter(img) == [img |-> img, err |-> NoError, n |-> 0]

\* swap_and_clear(&img.VipsImage, tmp)
swap_and_clear(f, tmp) == [f EXCEPT !.img = tmp]

\* an engine call into tmp: a non-zero result returns vipsError() at once, with
\* the handle as it is at that point; else the handle is swapped for tmp. The
\* failAt-th engine call of the method fails.
Call(f, call, tmp, failAt) ==
    IF f.err # NoError THEN f
    ELSE IF f.n + 1 = failAt THEN [f EXCEPT !.err = vipsError, !.n = @ + 1]
    ELSE swap_and_clear([f EXCEPT !.n = @ + 1], tmp)

\* the common shape: one engine call on the handle, then the swap
Op(f, call, failAt) == Call(f, call, vips(call, f.img), failAt)

\* CopyMemory, lines 570-577
CopyMemory(f, failAt) == Op(f, "vips_image_copy_memory", failAt)

\* Colorspace, lines 557-568
Colorspace(f, colorspace, failAt) ==
    IF f.img.Type # colorspace
    THEN Op(f, IF colorspace = "sRGB" THEN "vips_colourspace_go(sRGB)"
               ELSE "vips_colourspace_go(scRGB)", failAt)
    ELSE f

\* RgbColourspace, lines 553-555
RgbColourspace(f, failAt) == Colorspace(f, "sRGB", failAt)

\* Trim, lines 440-455: the image is copied to memory through the handle,
\* then trimmed
Trim(f, failAt) == Op(CopyMemory(f, failAt), "vips_trim", failAt)

\* Embed, lines 590-619
Embed(f, transpBg, failAt) ==
    LET f1 == RgbColourspace(f, failAt)
        f2 == IF transpBg /\ ~f1.img.HasAlpha
              THEN Op(f1, "vips_addalpha_go", failAt)
              ELSE f1
    IN  Op(f2, "vips_embed_go", failAt)

\* no vipsImage is followed
NoRaster ==
    [pc |-> "off", img |-> nilVipsImage, before |-> nilVipsImage, op |-> "none",
     err |-> NoError, ops |-> 0]

\* the method op has returned f for a handle that was raster.img
Called(op, f) ==
    [pc |-> IF f.err = NoError THEN "ready" ELSE "failed",
     img |-> f.img, before |-> raster.img, op |-> op, err |-> f.err,
     ops |-> raster.ops + 1]

\* the driver calls a method on an image it has loaded while no method has
\* returned an error, up to MaxRasterOps calls
CanCall == raster.pc = "ready" /\ raster.ops < MaxRasterOps

\* the engine calls of one method call that may fail: none, or one of up to three
FailAts == 0 .. 3

\* Load, lines 154-184: the loader of the image type decodes data into tmp
LoadImage ==
    /\ raster.pc = "new"
    /\ \E data \in LoadedImages, failAt \in FailAts :
          LET f == Enter(raster.img)
          IN  raster' = [Called("Load", Call(f, "load", data, failAt)) EXCEPT !.ops = 0]
    /\ UNCHANGED <<etagVars, parser, saver, handlerVars>>

\* Arrayjoin, lines 297-311
ArrayjoinImage ==
    /\ CanCall
    /\ \E failAt \in FailAts :
          LET f == Enter(raster.img)
          IN  raster' = Called("Arrayjoin", Op(f, "vips_arrayjoin_go", failAt))
    /\ UNCHANGED <<etagVars, parser, saver, handlerVars>>

\* CastUchar, lines 339-350
CastUcharImage ==
    /\ CanCall
    /\ \E failAt \in FailAts :
          LET f == Enter(raster.img)
          IN  raster' = Called("CastUchar", IF f.img.BandFmt # "uchar"
                                           THEN Op(f, "vips_cast_go", failAt)
                                           ELSE f)
    /\ UNCHANGED <<etagVars, parser, saver, handlerVars>>

\* Rad2Float, lines 352-363
Rad2FloatImage ==
    /\ CanCall
    /\ \E failAt \in FailAts :
          LET f == Enter(raster.img)
          IN  raster' = Called("Rad2Float", IF f.img.Coding = "rad"
                                           THEN Op(f, "vips_rad2float_go", failAt)
                                           ELSE f)
    /\ UNCHANGED <<etagVars, parser, saver, handlerVars>>

\* Resize, lines 365-381
ResizeImage ==
    /\ CanCall
    /\ \E failAt \in FailAts, hasAlpa \in BOOLEAN :
          LET f == Enter(raster.img)
          IN  raster' = Called("Resize", IF hasAlpa
                                        THEN Op(f, "vips_resize_with_premultiply", failAt)
                                        ELSE Op(f, "vips_resize_go", failAt))
    /\ UNCHANGED <<etagVars, parser, saver, handlerVars>>

\* Rotate, lines 387-398: the angle is removed from tmp before the swap
RotateImage ==
    /\ CanCall
    /\ \E failAt \in FailAts :
          LET f == Enter(raster.img)
          IN  raster' = Called("Rotate", Op(f, "vips_rot_go", failAt))
    /\ UNCHANGED <<etagVars, parser, saver, handlerVars>>

\* Flip, lines 400-409
FlipImage ==
    /\ CanCall
    /\ \E failAt \in FailAts :
          LET f == Enter(raster.img)
          IN  raster' = Called("Flip", Op(f, "vips_flip_horizontal_go", failAt))
    /\ UNCHANGED <<etagVars, parser, saver, handlerVars>>

\* Crop, lines 411-420
CropImage ==
    /\ CanCall
    /\ \E failAt \in FailAts :
          LET f == Enter(raster.img)
          IN  raster' = Called("Crop", Op(f, "vips_extract_area_go", failAt))
    /\ UNCHANGED <<etagVars, parser, saver, handlerVars>>

\* SmartCrop, lines 429-438
SmartCropImage ==
    /\ CanCall
    /\ \E failAt \in FailAts :
          LET f == Enter(raster.img)
          IN  raster' = Called("SmartCrop", Op(f, "vips_smartcrop_go", failAt))
    /\ UNCHANGED <<etagVars, parser, saver, handlerVars>>

TrimImage ==
    /\ CanCall
    /\ \E failAt \in FailAts :
          LET f == Enter(raster.img)
          IN  raster' = Called("Trim", Trim(f, failAt))
    /\ UNCHANGED <<etagVars, parser, saver, handlerVars>>

\* EnsureAlpha, lines 457-466
EnsureAlphaImage ==
    /\ CanCall
    /\ \E failAt \in FailAts :
          LET f == Enter(raster.img)
          IN  raster' = Called("EnsureAlpha", Op(f, "vips_ensure_alpha", failAt))
    /\ UNCHANGED <<etagVars, parser, saver, handlerVars>>

\* Flatten, lines 468-477
FlattenImage ==
    /\ CanCall
    /\ \E failAt \in FailAts :
          LET f == Enter(raster.img)
          IN  raster' = Called("Flatten", Op(f, "vips_flatten_go", failAt))
    /\ UNCHANGED <<etagVars, parser, saver, handlerVars>>

\* Blur, lines 479-488
BlurImage ==
    /\ CanCall
    /\ \E failAt \in FailAts :
          LET f == Enter(raster.img)
          IN  raster' = Called("Blur", Op(f, "vips_gaussblur_go", failAt))
    /\ UNCHANGED <<etagVars, parser, saver, handlerVars>>

\* Sharpen, lines 490-499
SharpenImage ==
    /\ CanCall
    /\ \E failAt \in FailAts :
          LET f == Enter(raster.img)
          IN  raster' = Called("Sharpen", Op(f, "vips_sharpen_go", failAt))
    /\ UNCHANGED <<etagVars, parser, saver, handlerVars>>

\* ImportColourProfile, lines 501-543: a failed import is logged, not returned
ImportColourProfileImage ==
    /\ CanCall
    /\ \E failAt \in FailAts, evenSRGB \in BOOLEAN, builtin \in BOOLEAN,
          profilePath \in {"ok", "error"} :
          LET f == Enter(raster.img)
              g == IF f.img.Coding # "none" THEN f
                   ELSE IF f.img.BandFmt \notin {"uchar", "ushort"} THEN f
                   ELSE IF f.img.icc = "none" /\ ~(f.img.Type = "CMYK" /\ ~builtin) THEN f
                   ELSE IF f.img.icc = "none" /\ profilePath = "error"
                       THEN [f EXCEPT !.err = plainError("cmykProfilePath")]
                   ELSE IF f.img.Type = "sRGB" /\ ~evenSRGB /\ f.img.icc = "srgb" THEN f
                   ELSE [Op(f, "vips_icc_import_go", failAt) EXCEPT !.err = NoError]
          IN  raster' = Called("ImportColourProfile", g)
    /\ UNCHANGED <<etagVars, parser, saver, handlerVars>>

\* LinearColourspace and RgbColourspace, lines 549-555
ColorspaceImage ==
    /\ CanCall
    /\ \E failAt \in FailAts, colorspace \in {"scRGB", "sRGB"} :
          LET f == Enter(raster.img)
          IN  raster' = Called("Colorspace", Colorspace(f, colorspace, failAt))
    /\ UNCHANGED <<etagVars, parser, saver, handlerVars>>

CopyMemoryImage ==
    /\ CanCall
    /\ \E failAt \in FailAts :
          LET f == Enter(raster.img)
          IN  raster' = Called("CopyMemory", CopyMemory(f, failAt))
    /\ UNCHANGED <<etagVars, parser, saver, handlerVars>>

\* Replicate, lines 579-588
ReplicateImage ==
    /\ CanCall
    /\ \E failAt \in FailAts :
          LET f == Enter(raster.img)
          IN  raster' = Called("Replicate", Op(f, "vips_replicate_go", failAt))
    /\ UNCHANGED <<etagVars, parser, saver, handlerVars>>

EmbedImage ==
    /\ CanCall
    /\ \E failAt \in FailAts, transpBg \in BOOLEAN :
          LET f == Enter(raster.img)
          IN  raster' = Called("Embed", Embed(f, transpBg, failAt))
    /\ UNCHANGED <<etagVars, parser, saver, handlerVars>>

\* ApplyWatermark, lines 621-631
ApplyWatermarkImage ==
    /\ CanCall
    /\ \E failAt \in FailAts :
          LET f == Enter(raster.img)
          IN  raster' = Called("ApplyWatermark", Op(f, "vips_apply_watermark", failAt))
    /\ UNCHANGED <<etagVars, parser, saver, handlerVars>>

\* Clear, lines 291-295: the driver releases the handle when it is done with
\* the image or a method has returned an error
ClearImage ==
    /\ raster.pc \in {"ready", "failed"}
    /\ raster.img # nilVipsImage
    /\ raster' = [raster EXCEPT !.pc = "cleared", !.img = nilVipsImage]
    /\ UNCHANGED <<etagVars, parser, saver, handlerVars>>

(***************************************************************************)
(* Specifications                                                          *)
(***************************************************************************)
fallbackData == [Data |-> "fallback", Type |-> imageTypePNG]

Confs ==
    [Concurrency : 1 .. MaxConcurrency,
     AllowInsecure : BOOLEAN,
     ETagEnabled : BOOLEAN,
     SkipProcessingFormats : {{}, {imageTypePNG}},
     GZipCompression : {0, 5},
     EnableWebpDetection : BOOLEAN,
     EnforceWebp : BOOLEAN,
     CacheControlPassthrough : {FALSE},
     TTL : {3600}]

SaveTypes == {imageTypeJPEG, imageTypePNG, imageTypeWEBP, imageTypeBMP}

FullEnv ==
    [sigs |-> {"unsafe", "signed", "forged"},
     options |-> {"ok", "invalid"},
     sources |-> {"allowed", "notallowed"},
     cached |-> {"none", "source", "fallback"},
     acceptEncodings |-> {"gzip", "identity"},
     formats |-> {imageTypeUnknown, imageTypePNG, imageTypeWEBP},
     srcTypes |-> {imageTypePNG, imageTypeWEBP, imageTypeBMP},
     downloadErrors |-> {newError(404, "origin"), newUnexpectedError("origin"),
                         plainError("origin")},
     processOutcomes |-> {"ok", "failed", "broken"},
     cacheHeaders |-> {[cacheControl |-> <<"no-cache">>, expires |-> <<>>]}]

InitServer ==
    /\ conf \in Confs
    /\ fallbackImage \in {nilImage, fallbackData}
    /\ vipsTypeSupportSave \in {SaveTypes, SaveTypes \ {imageTypeWEBP}}
    /\ processingSem = 0

\* no call of a function followed on its own is under way
LibIdle ==
    /\ eTagCalcPool = {}
    /\ calls = [g \in Clients |-> NoCall]
    /\ etags = {}
    /\ parser = NoParse
    /\ saver = NoSave
    /\ raster = NoRaster

\* one client, any request
Init ==
    /\ InitServer
    /\ LibIdle
    /\ env = FullEnv
    /\ req = [r \in Clients |-> IF r = 1 THEN NewRequest ELSE Idle]

\* every client sends a request; the requests are plain ones, the server is
\* configured with every feature of the pipeline on
ConcEnv ==
    [sigs |-> {"unsafe", "signed"},
     options |-> {"ok"},
     sources |-> {"allowed"},
     cached |-> {"none", "source"},
     acceptEncodings |-> {"gzip"},
     formats |-> {imageTypePNG},
     srcTypes |-> {imageTypePNG},
     downloadErrors |-> {plainError("origin")},
     processOutcomes |-> {"ok", "failed"},
     cacheHeaders |-> {[cacheControl |-> <<"no-cache">>, expires |-> <<>>]}]

ConcConfs ==
    {c \in Confs : /\ ~c.AllowInsecure /\ c.ETagEnabled /\ c.GZipCompression > 0
                   /\ ~c.EnableWebpDetection /\ ~c.EnforceWebp}

InitConc ==
    /\ conf \in ConcConfs
    /\ fallbackImage = nilImage
    /\ vipsTypeSupportSave = SaveTypes
    /\ processingSem = 0
    /\ env = ConcEnv
    /\ req = [r \in Clients |-> NewRequest]
    /\ LibIdle

Next ==
    \E r \in Clients :
        \/ Acquire(r)
        \/ CancelledBeforeProcessing(r)
        \/ ClientCancel(r)
        \/ DeadlineExpires(r)
        \/ ParsePath(r)
        \/ DownloadImage(r)
        \/ Conditional(r)
        \/ PrerespondOrSkip(r)
        \/ ProcessImage(r)
        \/ FinalCheck(r)
        \/ Unwind(r)
        \/ PanicHandler(r)

Spec == Init /\ [][Next]_vars

\* no request is served: the server's state is that of a started server
ServerIdle ==
    /\ conf \in ConcConfs
    /\ fallbackImage = nilImage
    /\ vipsTypeSupportSave = SaveTypes
    /\ processingSem = 0
    /\ env = ConcEnv
    /\ req = [r \in Clients |-> Idle]

\* the goroutines call calcETag again and again, with any of the arguments
InitETag ==
    /\ ServerIdle
    /\ eTagCalcPool = {}
    /\ calls = [g \in Clients |-> NoCall]
    /\ etags = {}
    /\ parser = NoParse
    /\ saver = NoSave
    /\ raster = NoRaster

NextETag ==
    \E g \in Clients :
        \/ ETagGet(g)
        \/ ETagFootprint(g)
        \/ ETagSum(g)
        \/ ETagReturn(g)

SpecETag == InitETag /\ [][NextETag]_vars

SeqsUpTo(S, n) == UNION {[1 .. k -> S] : k \in 0 .. n}

\* the references a preset body makes: to the preset itself and to the other one
PresetAtoms == {urlOption("preset", <<"test1">>), urlOption("preset", <<"test2">>)}

\* a preset body: nothing, an option, one reference or two
PresetBodies ==
    {<<>>, <<urlOption("quality", <<"50">>)>>}
    \cup {<<a>> : a \in PresetAtoms} \cup (PresetAtoms \X PresetAtoms)

\* conf.Presets: any of test1, test2 and default defined or not
PresetMaps ==
    LET named == UNION {[D -> PresetBodies] : D \in SUBSET {"test1", "test2"}}
        defaults == {<<urlOption("preset", <<"default">>)>>,
                     <<urlOption("preset", <<"test1">>)>>}
    IN  named \cup {("default" :> b) @@ m : b \in defaults, m \in named}

\* the atoms of a URL: options, references to presets, one of them twice, and
\* a reference to a preset that is not defined
PresetURLAtoms ==
    {urlOption("quality", <<"70">>), urlOption("preset", <<"test2">>),
     urlOption("preset", <<"test1", "test2", "test1">>), urlOption("preset", <<"nope">>)}

ParserIdle ==
    /\ fallbackImage = nilImage
    /\ vipsTypeSupportSave = SaveTypes
    /\ processingSem = 0
    /\ env = ConcEnv
    /\ req = [r \in Clients |-> Idle]
    /\ eTagCalcPool = {}
    /\ calls = [g \in Clients |-> NoCall]
    /\ etags = {}
    /\ saver = NoSave
    /\ raster = NoRaster

\* parsePath is called with any URL of preset references, under any preset map
InitPresets ==
    /\ conf \in {[Presets |-> m, EnableClientHints |-> FALSE] @@ c :
                    m \in PresetMaps, c \in {d \in ConcConfs : d.SkipProcessingFormats = {}}}
    /\ ParserIdle
    /\ parser \in {StartParse(url, NoHeaders) : url \in SeqsUpTo(PresetURLAtoms, MaxOptions)}

NextParse ==
    \/ ApplyOption
    \/ ApplyPresetOption
    \/ ExpandPreset
    \/ FinishParse

\* parsePath is a sequential function: once called it runs on until it returns
SpecPresets == InitPresets /\ [][NextParse]_vars /\ WF_vars(NextParse)

\* the atoms of a URL that set a width or a pixel ratio, themselves or through
\* a preset
HintURLAtoms ==
    {urlOption("width", <<"150">>), urlOption("width", <<"0">>), urlOption("dpr", <<"3">>),
     urlOption("preset", <<"test1">>)}

HintHeaders == [Width : {"", "100"}, ViewportWidth : {"", "50"}, DPR : {"", "2"}]

\* parsePath is called with any of the client-hint headers and any URL that
\* sets, or does not set, a width and a pixel ratio
InitHints ==
    /\ conf \in {[Presets |-> m, EnableClientHints |-> h] @@ c :
                    m \in {<<>>, "test1" :> <<urlOption("width", <<"320">>)>>},
                    h \in BOOLEAN,
                    c \in {d \in ConcConfs : d.SkipProcessingFormats = {}}}
    /\ ParserIdle
    /\ parser \in {StartParse(url, headers) :
                      url \in SeqsUpTo(HintURLAtoms, MaxOptions), headers \in HintHeaders}

SpecHints == InitHints /\ [][NextParse]_vars /\ WF_vars(NextParse)

\* the images handed to Save: up to, at and over the ICO limit, with and
\* without alpha, with PNG encodings of two lengths, and images libvips cannot
\* encode
SavedImages ==
    [Width : {16, 256, 257}, Height : {16, 256, 257}, HasAlpha : BOOLEAN,
     encodable : BOOLEAN, png : {<<137, 80>>, <<137, 80, 78>>}]

InitSave ==
    /\ ServerIdle
    /\ eTagCalcPool = {}
    /\ calls = [g \in Clients |-> NoCall]
    /\ etags = {}
    /\ parser = NoParse
    /\ saver \in {[NoSave EXCEPT !.pc = "call", !.img = img, !.imgtype = t] :
                    img \in SavedImages, t \in {imageTypeICO, imageTypePNG}}
    /\ raster = NoRaster

NextSave == SaveImage

SpecSave == InitSave /\ [][NextSave]_vars

\* a vipsImage is created; the driver loads an image into it and calls raster
\* operations on it, each of whose engine calls may fail
InitRaster ==
    /\ ServerIdle
    /\ eTagCalcPool = {}
    /\ calls = [g \in Clients |-> NoCall]
    /\ etags = {}
    /\ parser = NoParse
    /\ saver = NoSave
    /\ raster = [NoRaster EXCEPT !.pc = "new"]

NextRaster ==
    \/ LoadImage
    \/ ArrayjoinImage
    \/ CastUcharImage
    \/ Rad2FloatImage
    \/ ResizeImage
    \/ RotateImage
    \/ FlipImage
    \/ CropImage
    \/ SmartCropImage
    \/ TrimImage
    \/ EnsureAlphaImage
    \/ FlattenImage
    \/ BlurImage
    \/ SharpenImage
    \/ ImportColourProfileImage
    \/ ColorspaceImage
    \/ CopyMemoryImage
    \/ ReplicateImage
    \/ EmbedImage
    \/ ApplyWatermarkImage
    \/ ClearImage

SpecRaster == InitRaster /\ [][NextRaster]_vars

SpecConc == InitConc /\ [][Next]_vars

\* a step of the goroutine that serves client r
HandlerStep(r) ==
    \/ Acquire(r)
    \/ CancelledBeforeProcessing(r)
    \/ ParsePath(r)
    \/ DownloadImage(r)
    \/ Conditional(r)
    \/ PrerespondOrSkip(r)
    \/ ProcessImage(r)
    \/ FinalCheck(r)
    \/ Unwind(r)
    \/ PanicHandler(r)

\* the Go scheduler keeps running goroutines that can take a step, and a send
\* on processingSem that is possible is taken by a waiting goroutine
SpecConcFair == SpecConc /\ WF_vars(\E r \in Clients : HandlerStep(r))

\* what the origin may send as Cache-Control and Expires: either, both or none
OriginCacheHeaders ==
    [cacheControl : {<<>>, <<"no-cache">>}, expires : {<<>>, <<"tomorrow">>}]

\* one client; the origin answers with any cache headers, or fails
CacheEnv ==
    [sigs |-> {"signed"},
     options |-> {"ok"},
     sources |-> {"allowed"},
     cached |-> {"none", "source"},
     acceptEncodings |-> {"gzip", "identity"},
     formats |-> {imageTypeUnknown, imageTypeWEBP},
     srcTypes |-> {imageTypePNG, imageTypeBMP},
     downloadErrors |-> {plainError("origin")},
     processOutcomes |-> {"ok", "failed", "broken"},
     cacheHeaders |-> OriginCacheHeaders]

InitCache ==
    /\ conf \in {[c EXCEPT !.CacheControlPassthrough = b] :
                    b \in BOOLEAN,
                    c \in {d \in Confs : ~d.AllowInsecure /\ ~d.EnableWebpDetection
                                          /\ ~d.EnforceWebp}}
    /\ fallbackImage \in {nilImage, fallbackData}
    /\ vipsTypeSupportSave = SaveTypes
    /\ processingSem = 0
    /\ env = CacheEnv
    /\ req = [r \in Clients |-> IF r = 1 THEN NewRequest ELSE Idle]
    /\ LibIdle

SpecCache == InitCache /\ [][Next]_vars

\* every client sends a request, with or without gzip in Accept-Encoding, to
\* a server whose gzip compression is on or off
GzipEnv ==
    [sigs |-> {"signed"},
     options |-> {"ok"},
     sources |-> {"allowed"},
     cached |-> {"none"},
     acceptEncodings |-> {"gzip", "identity"},
     formats |-> {imageTypePNG},
     srcTypes |-> {imageTypePNG},
     downloadErrors |-> {plainError("origin")},
     processOutcomes |-> {"ok", "failed", "broken"},
     cacheHeaders |-> {[cacheControl |-> <<"no-cache">>, expires |-> <<>>]}]

InitGzip ==
    /\ conf \in {c \in Confs : /\ ~c.AllowInsecure /\ c.ETagEnabled
                               /\ ~c.EnableWebpDetection /\ ~c.EnforceWebp}
    /\ fallbackImage = nilImage
    /\ vipsTypeSupportSave = SaveTypes
    /\ processingSem = 0
    /\ env = GzipEnv
    /\ req = [r \in Clients |-> NewRequest]
    /\ LibIdle

SpecGzip == InitGzip /\ [][Next]_vars

(***************************************************************************)
(* Properties                                                              *)
(***************************************************************************)
InLog(q, e) == \E i \in 1 .. Len(q.log) : q.log[i] = e

\* the request's deferred release of its token is pending
HoldsToken(q) == \E i \in 1 .. Len(q.defers) : q.defers[i] = "release"

InFlight == {r \in Clients : HoldsToken(req[r])}

Waiting == {r \in Clients : req[r].pc = "select"}

\* C1: in every reachable state the number of requests that have passed the
\* admission semaphore and not yet released it is at most conf.Concurrency.
C1_AdmissionBound == Cardinality(InFlight) <= conf.Concurrency

\* C1 witness: every token is taken while another request waits for admission.
C1_Witness == Cardinality(InFlight) = conf.Concurrency /\ Waiting # {}

\* a request that ended as cancelled before processing never took a step of the pipeline
NeverAdmitted(q) ==
    /\ ~HoldsToken(q)
    /\ \A e \in {"acquire", "release", "parse", "download", "etag", "headers", "write", "process"} :
          ~InLog(q, e)
    /\ q.processed = 0
    /\ q.pc = "done" => q.rw.status = 499

\* C2: a request that finds every token taken and its cancellation signal fired
\* when it runs its select panics with the 499 error, acquires no token and
\* leaves processingSem as it was; a request cancelled before processing ends
\* with status 499 and has never been admitted, parsed, fetched or processed.
C2_CancelledWhileFull ==
    /\ [](\A r \in Clients : req[r].err = errCancelled => NeverAdmitted(req[r]))
    /\ [][\A r \in Clients :
            (/\ req[r].pc = "select"
             /\ ctxDone(req[r])
             /\ processingSem = conf.Concurrency
             /\ req'[r] # req[r])
            => (/\ req'[r].err = errCancelled
                /\ req'[r].pc = "unwind"
                /\ req'[r].defers = <<>>
                /\ processingSem' = processingSem)]_vars

\* C2 witness: a cancelled request has ended with 499 while every token is still held.
C2_Witness ==
    \E r \in Clients :
        /\ req[r].pc = "done"
        /\ req[r].rw.status = 499
        /\ processingSem = conf.Concurrency
        /\ Cardinality(InFlight) = conf.Concurrency

Unsafe(q) == ~conf.AllowInsecure /\ q.in.sig = "unsafe"

\* C3 as stated: with AllowInsecure off, a request whose signature segment is
\* `unsafe` never holds an admission token.
C3_UnsafeNeverAdmitted == \A r \in Clients : Unsafe(req[r]) => ~HoldsToken(req[r])

\* C3 as amended: with AllowInsecure off, a request whose signature segment is
\* `unsafe` is admitted and parsed, but parsing ends it: it panics with the
\* invalid-signature error, never reaches the download, the ETag check, the
\* response headers, a body write or the raster driver, and ends with 403.
C3_UnsafeNeverParsed ==
    \A r \in Clients :
        Unsafe(req[r]) =>
            /\ req[r].pc \in {"unwind", "recover", "done"}
            /\ req[r].err = errInvalidSignature
            /\ \A e \in {"download", "etag", "headers", "write", "process"} : ~InLog(req[r], e)
            /\ req[r].processed = 0
            /\ req[r].pc = "done" => req[r].rw.status = 403 /\ req[r].rw.body = <<"error">>

\* C3 witness: an `unsafe` request was admitted, rejected by the parser and answered 403.
C3_Witness ==
    \E r \in Clients :
        /\ Unsafe(req[r])
        /\ InLog(req[r], "acquire")
        /\ req[r].pc = "done"
        /\ req[r].rw.status = 403

Chunks(rw) == {rw.body[i] : i \in 1 .. Len(rw.body)}

\* the streams a response body holds bytes of; the gzip trailer belongs to the
\* stream that went through the encoder
BodyStreams(rw) == Chunks(rw) \ {"gzip"}

Index(q, e) == {i \in 1 .. Len(q.log) : q.log[i] = e}

Before(q, a, b) == \A i \in Index(q, a), j \in Index(q, b) : i < j

\* C4: a response is a 304 without body bytes, or it holds the bytes of one
\* body stream only (the encoded image, the passed-through source, or the
\* error body): a 304 never has a body, no body mixes two streams, and a
\* finished response that is not a 304 has a body.
C4_OneBodyStream ==
    \A r \in Clients :
        /\ req[r].rw.status = 304 => req[r].rw.body = <<>>
        /\ Cardinality(BodyStreams(req[r].rw)) <= 1
        /\ ("error" \in Chunks(req[r].rw)) => ("gzip" \notin Chunks(req[r].rw))
        /\ (req[r].pc = "done" /\ req[r].rw.status # 304) => req[r].rw.body # <<>>

\* C5: on every path that opened a response stream, the finalizer runs after
\* the last body write of the response and before the token is released, so
\* the token is held until the response is fully written.
C5_FinalizeThenRelease ==
    \A r \in Clients :
        (req[r].pc = "done" /\ InLog(req[r], "headers")) =>
            /\ InLog(req[r], "finalize") /\ InLog(req[r], "release")
            /\ Before(req[r], "write", "finalize")
            /\ Before(req[r], "errbody", "finalize")
            /\ Before(req[r], "finalize", "release")
            /\ Before(req[r], "errbody", "release")

\* C6: a request that the handler found past its deadline, at whatever stage
\* after admission, ends with status 500 and never with 200.
C6_TimeoutIs500 ==
    \A r \in Clients :
        (req[r].pc = "done" /\ req[r].ctx = "expired" /\ req[r].err = errTimeout) =>
            req[r].rw.status = 500

\* the option record as parsePath returned it, before format resolution
ParsedOptions(q) == parsePath(q.in).po

\* C7: with ETagEnabled, a request that reaches the conditional step carries
\* the ETag of the bytes it processes (the source's, or the fallback image's
\* after a substitution) and of its option record; it is answered 304 exactly
\* when If-None-Match equals that ETag, and a 304 has no body, no headers of a
\* 200 response, no skip-processing write and no raster run. Without
\* ETagEnabled there is no 304.
C7_Conditional ==
    \A r \in Clients :
        LET q == req[r] IN
        /\ InLog(q, "etag") =>
              /\ conf.ETagEnabled
              /\ q.rw.ETag = calcETag(IF InLog(q, "fallback") THEN fallbackImage
                                      ELSE [Data |-> "source", Type |-> q.imgdata.Type],
                                      ParsedOptions(q))
              /\ (q.rw.status = 304) <=> (q.in.IfNoneMatch = q.rw.ETag)
        /\ q.rw.status = 304 =>
              /\ InLog(q, "etag")
              /\ q.rw.body = <<>>
              /\ q.processed = 0
              /\ \A e \in {"headers", "write", "process"} : ~InLog(q, e)
              /\ q.pc \in {"unwind", "done"} /\ q.err = NoError
        /\ ~conf.ETagEnabled => q.rw.status # 304 /\ q.rw.ETag = <<>>

\* C7 witness: a request whose download failed was answered 304 for the ETag of
\* the fallback image.
C7_Witness ==
    \E r \in Clients :
        /\ req[r].pc = "done"
        /\ req[r].rw.status = 304
        /\ InLog(req[r], "fallback")
        /\ req[r].in.IfNoneMatch = calcETag(fallbackImage, ParsedOptions(req[r]))

Expected(e) == e.imgproxyError /\ ~e.Unexpected

\* C8: when the download fails and a fallback image is configured, the request
\* goes on with the fallback image as the data to process, and the error is
\* reported to the error sink exactly when it is not an expected imgproxyError;
\* when no fallback image is configured, the handler panics with the download
\* error and runs no ETag, header, body or raster step.
C8_Fallback ==
    \A r \in Clients :
        LET q == req[r] IN
        q.dlerr # NoError =>
            IF fallbackImage # nilImage
            THEN /\ q.imgdata = fallbackImage
                 /\ InLog(q, "fallback")
                 /\ InLog(q, "reportError") <=> ~Expected(q.dlerr)
                 /\ q.err # q.dlerr
                 /\ (q.pc = "done" /\ q.rw.status = 200) =>
                        \/ q.rw.ContentType = ResolveFormat(ParsedOptions(q), fallbackImage)
                        \/ SkipProcessing([q EXCEPT !.po = ParsedOptions(q)])
            ELSE /\ q.err = q.dlerr
                 /\ q.pc \in {"unwind", "recover", "done"}
                 /\ q.imgdata = nilImage
                 /\ q.rw.ETag = <<>>
                 /\ q.processed = 0
                 /\ \A e \in {"fallback", "reportError", "etag", "headers", "write", "process"} :
                        ~InLog(q, e)

\* C8 witness: an expected download error, not reported, answered with the
\* processed fallback image.
C8_Witness ==
    \E r \in Clients :
        /\ req[r].pc = "done"
        /\ req[r].dlerr # NoError /\ Expected(req[r].dlerr)
        /\ req[r].imgdata = fallbackData
        /\ req[r].rw.status = 200
        /\ req[r].rw.body = <<"image">>

\* the skip-processing condition of the claim, on the request as it was parsed
\* and the image as it was fetched
SkipCase(q) ==
    /\ q.imgdata.Type \in conf.SkipProcessingFormats
    /\ ParsedOptions(q).Format \in {q.imgdata.Type, imageTypeUnknown}

\* C9: of the requests that get to the response, those and only those whose
\* source type is in SkipProcessingFormats and whose requested Format is that
\* type or unknown bypass the raster driver: their body is the source bytes
\* (behind the gzip encoder when one is used) and their Format the source
\* type. Every other request that is answered 200 has had processImage called
\* exactly once and holds no source bytes.
C9_SkipProcessing ==
    \A r \in Clients :
        LET q == req[r] IN
        InLog(q, "headers") =>
            IF SkipCase(q)
            THEN /\ q.processed = 0 /\ ~InLog(q, "process")
                 /\ q.rw.body \in {<<"source">>, <<"source", "gzip">>}
                 /\ q.rw.status = 200
                 /\ q.po.Format = q.imgdata.Type
                 /\ q.rw.ContentType = q.imgdata.Type
            ELSE /\ "source" \notin Chunks(q.rw)
                 /\ q.processed <= 1
                 /\ q.rw.status = 200 => q.processed = 1 /\ InLog(q, "process")
                 /\ q.pc = "done" => q.processed = 1

\* C9 witness: a PNG source requested with no format was passed through, and so
\* was not handed to the raster driver.
C9_Witness ==
    \E r \in Clients :
        /\ req[r].pc = "done"
        /\ req[r].in.ext = imageTypeUnknown
        /\ req[r].imgdata = [Data |-> "source", Type |-> imageTypePNG]
        /\ req[r].rw.body = <<"source">>
        /\ req[r].rw.ContentType = imageTypePNG

Enforced(q) == q.po.EnforceWebP /\ imageTypeSaveSupport(imageTypeWEBP)

\* C10 as stated: with EnforceWebP set on the options and WebP saving
\* supported, every 200 response is WebP.
C10_EnforcedAlwaysWebP ==
    \A r \in Clients :
        (Enforced(req[r]) /\ req[r].rw.status = 200) => req[r].rw.ContentType = imageTypeWEBP

\* C10 as amended: with EnforceWebP set on the options and WebP saving
\* supported, every 200 response that is not a skip-processing pass-through is
\* WebP, whatever format the URL requested and whatever the source type; a
\* pass-through keeps the source type.
C10_EnforcedWebPUnlessSkipped ==
    \A r \in Clients :
        LET q == req[r] IN
        /\ q.rw.status = 200 => InLog(q, "headers")
        /\ (Enforced(q) /\ InLog(q, "headers")) =>
              /\ q.rw.ContentType = (IF SkipCase(q) THEN q.imgdata.Type ELSE imageTypeWEBP)
              /\ q.po.Format = q.rw.ContentType

\* C10 witness: a BMP source requested as PNG was answered 200 as WebP.
C10_Witness ==
    \E r \in Clients :
        /\ req[r].pc = "done"
        /\ Enforced(req[r])
        /\ req[r].in.ext = imageTypePNG
        /\ req[r].imgdata.Type = imageTypeBMP
        /\ req[r].rw.status = 200
        /\ req[r].rw.ContentType = imageTypeWEBP

\* the request asked for no format and was not passed through unprocessed
UnknownResolved(q) ==
    /\ ParsedOptions(q).Format = imageTypeUnknown
    /\ InLog(q, "headers")
    /\ ~SkipCase(q)

\* C11: when the requested Format is unknown and the request reaches format
\* resolution, the resolved format is WebP if PreferWebP and WebP saving is
\* supported; otherwise the source type if that type can be saved and is
\* web-suitable; otherwise JPEG. The format handed to prerespondWithImage and
\* to the raster driver is never unknown.
C11_UnknownFormatResolved ==
    \A r \in Clients :
        LET q == req[r] IN
        /\ UnknownResolved(q) =>
              /\ q.po.Format =
                    (IF ParsedOptions(q).PreferWebP /\ imageTypeWEBP \in vipsTypeSupportSave
                        THEN imageTypeWEBP
                     ELSE IF q.imgdata.Type \in vipsTypeSupportSave
                             /\ q.imgdata.Type # imageTypeBMP
                        THEN q.imgdata.Type
                     ELSE imageTypeJPEG)
              /\ q.rw.ContentType = q.po.Format
        /\ (InLog(q, "headers") \/ InLog(q, "process")) =>
              /\ q.po.Format # imageTypeUnknown
              /\ q.rw.ContentType # imageTypeUnknown

\* C11 witness: no format requested, WebP not preferred, a WebP source the
\* engine cannot save: the response is a processed JPEG.
C11_Witness ==
    \E r \in Clients :
        /\ UnknownResolved(req[r])
        /\ req[r].pc = "done"
        /\ ~ParsedOptions(req[r]).PreferWebP
        /\ req[r].imgdata.Type = imageTypeWEBP
        /\ imageTypeWEBP \notin vipsTypeSupportSave
        /\ req[r].rw.status = 200
        /\ req[r].rw.ContentType = imageTypeJPEG
        /\ req[r].processed = 1

\* two returned calls had the same source bytes; the image type is no input of the hash
SameSource(a, b) == a.imgdata.Data = b.imgdata.Data

\* C12: calcETag is deterministic and option-sensitive: two calls with the
\* same source bytes and the same options (under one version and one
\* configuration) return the same value, whether the hash object they got was
\* new or had been used by earlier or concurrent calls; two calls with the
\* same source bytes whose options differ in Quality only return different
\* values (sha256 taken as injective).
C12_ETagDeterministic ==
    \A a \in etags, b \in etags :
        /\ (SameSource(a, b) /\ a.po = b.po) => a.eTag = b.eTag
        /\ (/\ SameSource(a, b)
            /\ a.po.Quality # b.po.Quality
            /\ [a.po EXCEPT !.Quality = b.po.Quality] = b.po) => a.eTag # b.eTag

\* C12 witness: a call on a reused hash object is about to return the value an
\* earlier call with the same arguments returned, a call with another Quality
\* has returned too, and another call is under way at the same time.
C12_Witness ==
    \E g \in Clients, h \in Clients, a \in etags, c \in etags :
        /\ g # h
        /\ calls[g].pc = "return" /\ calls[g].reused
        /\ calls[g].imgdata = a.imgdata /\ calls[g].po = a.po /\ calls[g].eTag = a.eTag
        /\ SameSource(a, c) /\ a.po.Quality # c.po.Quality
        /\ calls[h].pc = "sum"

UsedSet(po) == {po.UsedPresets[i] : i \in 1 .. Len(po.UsedPresets)}

\* how often the parse has expanded the preset `name`
Expansions(name) ==
    Cardinality({i \in 1 .. Len(parser.log) : parser.log[i] = <<"expand", name>>})

IsPrefix(a, b) == Len(a) <= Len(b) /\ SubSeq(b, 1, Len(a)) = a

\* C13: preset expansion terminates for every option list and every preset
\* map, presets that refer to themselves or to each other included: every
\* parse returns or fails; each preset name is expanded at most once per parse;
\* UsedPresets only grows, holds no name twice, holds defined presets only and
\* so never more names than there are presets. preset:test1:test2:test1
\* yields UsedPresets = {test1, test2}.
C13_PresetExpansionTerminates ==
    /\ [](/\ \A n \in DOMAIN conf.Presets \cup {"nope"} : Expansions(n) <= 1
          /\ Cardinality(UsedSet(parser.po)) = Len(parser.po.UsedPresets)
          /\ UsedSet(parser.po) \subseteq DOMAIN conf.Presets
          /\ Len(parser.po.UsedPresets) <= Cardinality(DOMAIN conf.Presets)
          /\ (/\ parser.pc = "done"
              /\ parser.url = <<urlOption("preset", <<"test1", "test2", "test1">>)>>
              /\ "default" \notin DOMAIN conf.Presets)
             => UsedSet(parser.po) = {"test1", "test2"})
    /\ [][IsPrefix(parser.po.UsedPresets, parser'.po.UsedPresets)]_vars
    /\ <>(parser.pc \in {"done", "failed"})

\* C13 witness: two presets that refer to each other, asked for as
\* preset:test1:test2:test1: the parse has returned with UsedPresets = test1, test2.
C13_Witness ==
    /\ parser.pc = "done"
    /\ parser.url = <<urlOption("preset", <<"test1", "test2", "test1">>)>>
    /\ DOMAIN conf.Presets = {"test1", "test2"}
    /\ conf.Presets["test1"] = <<urlOption("preset", <<"test2">>)>>
    /\ conf.Presets["test2"] = <<urlOption("preset", <<"test1">>)>>
    /\ parser.po.UsedPresets = <<"test1", "test2">>

\* the URL sets the option `name`: one of its atoms does, or an atom of a
\* preset it refers to
URLSets(url, name) ==
    \E i \in 1 .. Len(url) :
        \/ url[i].Name = name
        \/ /\ url[i].Name = "preset"
           /\ \E j \in 1 .. Len(url[i].Args) :
                 /\ url[i].Args[j] \in DOMAIN conf.Presets
                 /\ \E k \in 1 .. Len(conf.Presets[url[i].Args[j]]) :
                       conf.Presets[url[i].Args[j]][k].Name = name

\* the widths the headers of the request carry
HintedWidths(headers) ==
    {Atoi(v) : v \in {headers.Width, headers.ViewportWidth} \ {""}}

\* C14: client-hint headers never override explicit URL options. In a parse
\* that returned: when the URL set a width, Width is a width of the URL and
\* none of the headers; else, with EnableClientHints on and a Width or
\* Viewport-Width header, Width is that header's value; else Width stays 0.
\* Dpr likewise with the DPR header, and stays 1.0 without. With
\* EnableClientHints off the headers have no effect.
C14_HintsNeverOverrideURL ==
    parser.pc = "done" =>
        /\ IF URLSets(parser.url, "width")
           THEN parser.po.Width \in {0, 150, 320}
           ELSE IF conf.EnableClientHints /\ HintedWidths(parser.headers) # {}
           THEN parser.po.Width \in HintedWidths(parser.headers)
           ELSE parser.po.Width = 0
        /\ IF URLSets(parser.url, "dpr")
           THEN parser.po.Dpr = 3
           ELSE IF conf.EnableClientHints /\ parser.headers.DPR # ""
           THEN parser.po.Dpr = Atoi(parser.headers.DPR)
           ELSE parser.po.Dpr = 1

\* C14 witness: with EnableClientHints on, Width: 100 and DPR: 2 were sent
\* with a URL that says width:150 and no dpr: the parse returned Width 150, Dpr 2.
C14_Witness ==
    /\ parser.pc = "done"
    /\ conf.EnableClientHints
    /\ parser.headers = [Width |-> "100", ViewportWidth |-> "", DPR |-> "2"]
    /\ parser.url = <<urlOption("width", <<"150">>)>>
    /\ parser.po.Width = 150
    /\ parser.po.Dpr = 2

\* the signature of the request does not verify
BadSignature(q) == ~conf.AllowInsecure /\ q.in.sig \in {"unsafe", "forged"}

\* parsePath was called for the request and returned an error
ParseFailed(q) == InLog(q, "parse") /\ parsePath(q.in).err # NoError

\* C15: a parse failure ends the request with the status mapped from the
\* error: 403 for an invalid signature, 404 for a source that is not allowed,
\* 422 for any other parse error; after a parse failure the downloader, the
\* ETag computation, the response headers and body of the image and the raster
\* driver are never invoked for the request.
C15_ParseFailureStatus ==
    \A r \in Clients :
        LET q == req[r] IN
        ParseFailed(q) =>
            /\ q.pc \in {"unwind", "recover", "done"}
            /\ q.err = parsePath(q.in).err
            /\ \A e \in {"download", "fallback", "etag", "notModified", "headers", "write",
                         "process", "finalize"} : ~InLog(q, e)
            /\ q.processed = 0 /\ q.imgdata = nilImage /\ q.rw.ETag = <<>>
            /\ q.pc = "done" =>
                  /\ q.rw.body = <<"error">>
                  /\ q.rw.status \in {403, 404, 422}
                  /\ BadSignature(q) => q.rw.status = 403
                  /\ (~BadSignature(q) /\ q.in.source = "notallowed") => q.rw.status = 404
                  /\ (~BadSignature(q) /\ q.in.source = "allowed") => q.rw.status = 422

\* C15 witness: a request for an allowed source with an invalid option was
\* admitted, failed to parse, was answered 422 and gave its token back.
C15_Witness ==
    \E r \in Clients :
        /\ req[r].pc = "done"
        /\ ~BadSignature(req[r])
        /\ req[r].in.options = "invalid"
        /\ req[r].in.source = "allowed"
        /\ req[r].rw.status = 422
        /\ InLog(req[r], "release")

\* the response carries the cache headers the handler synthesises
Synthesised(rw) ==
    /\ rw.CacheControl = <<"max-age=", conf.TTL, ", public">>
    /\ rw.Expires = <<"now+", conf.TTL>>

\* the response carries what the origin sent with the image, and nothing for a
\* header the origin did not send
PassedThrough(q) == q.rw.CacheControl = q.cacheControl /\ q.rw.Expires = q.expires

\* C16 as stated: on every 200 response Cache-Control and Expires are those
\* of the origin when CacheControlPassthrough is on, and are synthesised
\* otherwise.
C16_PassthroughWheneverOn ==
    \A r \in Clients :
        req[r].rw.status = 200 =>
            IF conf.CacheControlPassthrough THEN PassedThrough(req[r])
            ELSE Synthesised(req[r].rw)

\* C16 as amended: on every 200 response, Cache-Control and Expires are those
\* of the origin when CacheControlPassthrough is on and the origin sent at
\* least one of the two with the image (a header it did not send is then not
\* emitted); in every other case (CacheControlPassthrough off, an origin that
\* sent neither, a fallback image) Cache-Control is `max-age=<TTL>, public`
\* with the matching Expires. No origin value is emitted when
\* CacheControlPassthrough is off, and the headers are set before the first
\* body byte is written.
C16_PassthroughOrSynthesised ==
    \A r \in Clients :
        LET q == req[r] IN
        /\ q.rw.status = 200 =>
              /\ InLog(q, "headers")
              /\ IF /\ conf.CacheControlPassthrough
                    /\ q.cacheControl # <<>> \/ q.expires # <<>>
                 THEN PassedThrough(q)
                 ELSE Synthesised(q.rw)
              /\ ~conf.CacheControlPassthrough =>
                    /\ q.rw.CacheControl \notin {<<"no-cache">>}
                    /\ q.rw.Expires \notin {<<"tomorrow">>}
        /\ q.rw.body # <<>> /\ q.rw.status = 200 =>
              /\ q.rw.CacheControl # <<>> \/ q.rw.Expires # <<>>
              /\ Before(q, "headers", "write")
              /\ Before(q, "headers", "errbody")
        /\ ~InLog(q, "headers") => q.rw.CacheControl = <<>> /\ q.rw.Expires = <<>>

\* C16 witness: with CacheControlPassthrough on, an origin that sent
\* Cache-Control and no Expires was answered 200 with that Cache-Control and
\* no Expires.
C16_Witness ==
    \E r \in Clients :
        /\ conf.CacheControlPassthrough
        /\ req[r].pc = "done"
        /\ req[r].rw.status = 200
        /\ req[r].cacheControl = <<"no-cache">> /\ req[r].expires = <<>>
        /\ req[r].rw.CacheControl = <<"no-cache">> /\ req[r].rw.Expires = <<>>
        /\ req[r].rw.body = <<"image">>

\* C17: saving as ICO. For an image of at most 256x256 the bytes the target
\* takes are a 6-byte ICONDIR, a 16-byte ICONDIRENTRY (bits per pixel 32 with
\* alpha, else 24; image-data size the length of the PNG encoding; image-data
\* offset 22) and then the PNG bytes of the image; for a wider or taller image
\* an error is returned and the target takes nothing.
C17_IcoLayout ==
    (saver.pc \notin {"off", "call"} /\ saver.imgtype = imageTypeICO) =>
        IF saver.img.Width <= 256 /\ saver.img.Height <= 256
        THEN saver.img.encodable =>
                /\ saver.pc = "returned" /\ saver.err = "nil"
                /\ Len(saver.w) = 22 + Len(saver.img.png)
                /\ SubSeq(saver.w, 1, 6) = <<0, 0, 1, 0, 1, 0>>
                /\ SubSeq(saver.w, 13, 14) = (IF saver.img.HasAlpha THEN <<32, 0>> ELSE <<24, 0>>)
                /\ SubSeq(saver.w, 15, 18) = <<Len(saver.img.png), 0, 0, 0>>
                /\ SubSeq(saver.w, 19, 22) = <<22, 0, 0, 0>>
                /\ SubSeq(saver.w, 23, Len(saver.w)) = saver.img.png
        ELSE saver.pc = "returned" /\ saver.err # "nil" /\ saver.w = <<>>

Count(q, e) == Cardinality(Index(q, e))

\* how far the request has come: accepted, admitted, parsed, fetched, past the
\* ETag check, responding, processed, ending, ended
Stage(q) ==
    CASE q.pc \in {"off", "select"} -> 0
      [] q.pc = "admitted" -> 1
      [] q.pc = "parsed" -> 2
      [] q.pc = "fetched" -> 3
      [] q.pc = "checked" -> 4
      [] q.pc = "preresponded" -> 5
      [] q.pc = "processed" -> 6
      [] q.pc = "unwind" -> 7
      [] q.pc = "recover" -> 8
      [] OTHER -> 9

\* C18: each request passes through its stages in the order Accepted,
\* Admitted, Parsed, Fetched, Conditional or Processed, Responded, and never
\* goes back: parsing starts only while the admission token is held, the
\* download only after parsing succeeded, the ETag check only after the fetch
\* or the fallback substitution, headers and body are written only after the
\* ETag check; a 304 excludes processing; no stage is entered twice.
C18_StageOrder ==
    /\ [](\A r \in Clients :
            LET q == req[r] IN
            /\ \A e \in {"acquire", "parse", "download", "fallback", "etag", "notModified",
                         "headers", "process", "finalize", "release", "errbody"} :
                  Count(q, e) <= 1
            /\ InLog(q, "parse") => InLog(q, "acquire") /\ Before(q, "acquire", "parse")
            /\ InLog(q, "download") =>
                  /\ InLog(q, "parse") /\ Before(q, "parse", "download")
                  /\ parsePath(q.in).err = NoError
            /\ InLog(q, "etag") =>
                  /\ InLog(q, "download") /\ Before(q, "download", "etag")
                  /\ Before(q, "fallback", "etag")
                  /\ q.imgdata # nilImage
            /\ (conf.ETagEnabled /\ InLog(q, "headers")) => InLog(q, "etag")
            /\ \A e \in {"headers", "write", "process"} :
                  InLog(q, e) => InLog(q, "download") /\ Before(q, "etag", e)
                                 /\ Before(q, "download", e)
            /\ Before(q, "headers", "write") /\ Before(q, "headers", "process")
            /\ InLog(q, "notModified") =>
                  ~InLog(q, "headers") /\ ~InLog(q, "process") /\ ~InLog(q, "write"))
    /\ [][\A r \in Clients :
            /\ Stage(req'[r]) >= Stage(req[r])
            /\ req'[r].log # req[r].log =>
                  /\ Stage(req'[r]) > Stage(req[r])
                  /\ IsPrefix(req[r].log, req'[r].log)
            /\ (InLog(req'[r], "parse") /\ ~InLog(req[r], "parse")) => HoldsToken(req[r])]_vars

\* C18 witness: a request went through every stage once and was answered 200:
\* admitted, parsed, fetched, checked against its ETag, headers, processed.
C18_Witness ==
    \E r \in Clients :
        /\ req[r].pc = "done"
        /\ req[r].rw.status = 200
        /\ req[r].log = <<"acquire", "parse", "download", "etag", "headers", "process",
                          "write", "finalize", "release">>

\* handleProcessing has been left, by return or by panic, its deferred calls done
Exited(q) == q.pc \in {"recover", "done"}

Admitted(q) == InLog(q, "acquire")

\* C19: every admitted request releases its admission token exactly once on
\* every exit path: the tokens in processingSem are as many as the admitted
\* requests that have not left handleProcessing; a request that has left it
\* released its token once if it was admitted and never otherwise; once all
\* requests have ended the semaphore is empty; and every request ends, so a
\* waiting request is eventually admitted (or found cancelled) as tokens are
\* given back.
C19_TokenReleasedOnce ==
    /\ [](/\ processingSem = Cardinality({r \in Clients : Admitted(req[r]) /\ ~Exited(req[r])})
          /\ \A r \in Clients :
                /\ Count(req[r], "release") <= 1
                /\ InLog(req[r], "release") => Admitted(req[r])
                /\ (Exited(req[r]) /\ Admitted(req[r])) => Count(req[r], "release") = 1
                /\ (Exited(req[r]) /\ ~Admitted(req[r])) => req[r].err = errCancelled
          /\ (\A r \in Clients : req[r].pc = "done") => processingSem = 0)
    /\ <>(\A r \in Clients : req[r].pc = "done")

\* the ways out of handleProcessing an admitted request has taken
ExitPath(q) ==
    IF q.err = NoError
    THEN (IF q.rw.status = 304 THEN "304" ELSE IF q.processed = 0 THEN "skip" ELSE "200")
    ELSE IF q.err = errTimeout THEN "timeout"
    ELSE IF ~InLog(q, "download") THEN "parse"
    ELSE IF ~InLog(q, "headers") THEN "fetch"
    ELSE "process"

\* C19 witness: two admitted requests have ended, one after the other through
\* the single token, one of them by a timeout panic after its headers were
\* written, and the semaphore is empty.
C19_Witness ==
    /\ processingSem = 0
    /\ conf.Concurrency < Cardinality(Clients)
    /\ \A r \in Clients : req[r].pc = "done" /\ Admitted(req[r]) /\ InLog(req[r], "release")
    /\ \E r \in Clients : ExitPath(req[r]) = "timeout" /\ InLog(req[r], "headers")

\* the request holds an encoder of responseGzipPool
HoldsEncoder(q) == Count(q, "gzGet") > Count(q, "gzPut")

\* C20: a gzip encoder is taken from the pool only by a request that holds an
\* admission token, and only when GZipCompression > 0 and the request's
\* Accept-Encoding has gzip; a request takes at most one encoder, and closes
\* it once and returns it once, before it gives its token back, whichever way
\* it leaves the handler; so the encoders checked out are never more than
\* Concurrency; and Content-Encoding: gzip is set on exactly the responses
\* that are written through an encoder.
C20_GzipFollowsAdmission ==
    /\ Cardinality({r \in Clients : HoldsEncoder(req[r])}) <= conf.Concurrency
    /\ \A r \in Clients :
          LET q == req[r]
          IN  /\ HoldsEncoder(q) => HoldsToken(q)
              /\ Count(q, "gzGet") <= 1
              /\ InLog(q, "gzGet") <=>
                    /\ InLog(q, "headers")
                    /\ conf.GZipCompression > 0
                    /\ q.in.AcceptEncoding = "gzip"
              /\ Count(q, "gzClose") <= Count(q, "gzGet")
              /\ Count(q, "gzPut") <= Count(q, "gzClose")
              /\ Exited(q) =>
                    /\ Count(q, "gzClose") = Count(q, "gzGet")
                    /\ Count(q, "gzPut") = Count(q, "gzGet")
              /\ Before(q, "gzGet", "gzClose") /\ Before(q, "gzClose", "gzPut")
              /\ Before(q, "gzPut", "release")
              /\ (q.rw.ContentEncoding = "gzip") <=> InLog(q, "gzGet")
              /\ ("gzip" \in Chunks(q.rw)) <=> InLog(q, "gzClose")

\* C20 witness: both clients asked for gzip and were served one after the
\* other through the single token; one response is complete, the other ended
\* in a processing error after its headers were written; each took one
\* encoder and closed and returned it once.
C20_Witness ==
    /\ conf.Concurrency < Cardinality(Clients)
    /\ \A r \in Clients :
          /\ req[r].pc = "done"
          /\ Count(req[r], "gzGet") = 1
          /\ Count(req[r], "gzClose") = 1
          /\ Count(req[r], "gzPut") = 1
          /\ req[r].rw.ContentEncoding = "gzip"
    /\ \E r \in Clients : ExitPath(req[r]) = "200"
    /\ \E r \in Clients : ExitPath(req[r]) = "process"

\* C21: a raster operation that returns an error leaves the image handle
\* exactly as it was before the call: the handle is swapped for the result
\* only when the whole operation succeeded, never after a partial step.
C21_ErrorLeavesHandle ==
    (raster.pc = "failed") => raster.img = raster.before

====
